---- MODULE Spec2Model ----
(***************************************************************************)
(* A model of the fastapi_mcpagent service: the two math endpoints, the   *)
(* item table endpoints, the two response schemas, the documentation      *)
(* agent endpoint (/agent/query) and the browser agent endpoint           *)
(* (/mcp/query) with its scoped MCP-server lifecycle.                     *)
(***************************************************************************)
EXTENDS Integers, Sequences, FiniteSets, TLC

(* ------------------------------ bounds -------------------------------- *)

\* Largest magnitude of a /divide operand that is enumerated.
MaxOperand == 6
\* Largest Fibonacci index that is enumerated.
MaxFibN == 12
\* Most negative Fibonacci index that is enumerated is -MaxNegN.
MaxNegN == 2

\* Most rows the item table is made to hold.
MaxItems == 3
\* Largest skip or limit that is enumerated besides the defaults.
MaxPage == 4
\* Most negative skip or limit that is enumerated is -MaxNegPage.
MaxNegPage == 1

\* How far beyond the confidence range candidate values are enumerated.
ConfMargin == 2
\* Number of query requests that may be in flight together.
NumQueries == 2
\* Most tool-call rounds of one agent run that are enumerated.
MaxRounds == 2

VARIABLES
    schShape,    \* response shape last constructed: "BotResponse", "MCPBotResponse"
    schCand,     \* the candidate field values handed to the constructor
    schResult,   \* what the construction gave: an instance or a ValidationError
    tavilyKey,   \* whether TAVILY_API_KEY is set in the process environment
    appUp,       \* whether the app module is loaded and the server accepts requests
    kind,        \* per query: the endpoint it arrived at, "agent" or "mcp"
    pc,          \* per query: position of its handler
    rounds,      \* per query: tool-call rounds of its agent run so far
    toolOk,      \* per query: whether some tool call of its run succeeded
    draft,       \* per query: the output draft the model gave
    result,      \* per query: what agent.run gave, an output or an exception
    mOpen,       \* per query: whether it is inside the run_mcp_servers block
    mStarts,     \* per query: subprocess starts made for it
    mStops,      \* per query: subprocess shutdowns made for it
    dialect,     \* database behind DATABASE_URL: "sqlite" (the default) or "strict"
    items,       \* rows of table items in rowid order: [id, name, description]
    created,     \* history: what each POST /items/ submitted and the id it was given
    itemResp,    \* last response of the item endpoints, with its request
    divResp,     \* last response of GET /divide/{numerator}/{denominator}
    fibPc,       \* position of the fibonacci handler: "idle", "loop", "done"
    fibN,        \* its path parameter n
    fibA,        \* local a
    fibB,        \* local b
    fibI,        \* loop variable of range(2, n + 1), called _ in the source
    fibResp      \* last response of GET /fibonacci/{n}

mathVars == <<divResp, fibPc, fibN, fibA, fibB, fibI, fibResp>>

itemVars == <<dialect, items, created, itemResp>>

schemaVars == <<schShape, schCand, schResult>>

queryVars == <<tavilyKey, appUp, kind, pc, rounds, toolOk, draft, result,
               mOpen, mStarts, mStops>>

vars == <<mathVars, itemVars, schemaVars, queryVars>>

NoResp == [status |-> 0, hasResult |-> FALSE, result |-> <<0, 1>>, detail |-> "",
           num |-> 0, den |-> 0]

(* --------------------------- GET /divide ------------------------------ *)

Abs(x) == IF x < 0 THEN -x ELSE x

RECURSIVE Gcd(_, _)
Gcd(a, b) == IF b = 0 THEN a ELSE Gcd(b, a % b)

\* The value numerator / denominator of two whole-valued floats, kept exact
\* as a fraction <<p, q>> in lowest terms with q > 0.
Quotient(n, d) ==
    LET g == Gcd(Abs(n), Abs(d))
        s == IF d < 0 THEN -1 ELSE 1
    IN  <<(s * n) \div g, (s * d) \div g>>

\* A division that answers 0 for a zero denominator instead of raising.
TrueDivGuarded(n, d) ==
    IF d = 0 THEN [ok |-> TRUE, val |-> <<0, 1>>, err |-> ""]
    ELSE [ok |-> TRUE, val |-> Quotient(n, d), err |-> ""]

\* Python's float / float: raises ZeroDivisionError when the divisor is zero.
TrueDiv(n, d) ==
    IF d = 0 THEN [ok |-> FALSE, val |-> <<0, 1>>, err |-> "ZeroDivisionError"]
    ELSE [ok |-> TRUE, val |-> Quotient(n, d), err |-> ""]

\* The handler: result = numerator / denominator; return {'result': result}.
\* An exception leaves the handler without a return value and the framework
\* answers 500.
divide(numerator, denominator) ==
    LET r == TrueDiv(numerator, denominator)
    IN  /\ divResp' = IF r.ok
                      THEN [status |-> 200, hasResult |-> TRUE, result |-> r.val,
                            detail |-> "", num |-> numerator, den |-> denominator]
                      ELSE [status |-> 500, hasResult |-> FALSE, result |-> <<0, 1>>,
                            detail |-> r.err, num |-> numerator, den |-> denominator]
        /\ UNCHANGED <<fibPc, fibN, fibA, fibB, fibI, fibResp>>
        /\ UNCHANGED <<itemVars, schemaVars, queryVars>>

DivideRequest ==
    \E numerator \in -MaxOperand..MaxOperand, denominator \in -MaxOperand..MaxOperand :
        divide(numerator, denominator)

(* -------------------------- GET /fibonacci ---------------------------- *)

\* HTTPException(status_code=400, detail=...)
NegativeDetail == "Input must be a non-negative integer"

\* A loop body that forgets to shift a: a, b = a, a + b.
FibStepNoShift(a, b) == <<a, a + b>>

\* The loop body: a, b = b, a + b.
FibStep(a, b) == <<b, a + b>>

\* Entry of the handler up to the loop: the two early exits and a, b = 0, 1.
FibEnter ==
    /\ fibPc = "idle"
    /\ \E n \in -MaxNegN..MaxFibN :
        /\ fibN' = n
        /\ IF n < 0
           THEN /\ fibResp' = [status |-> 400, hasResult |-> FALSE, result |-> 0,
                               detail |-> NegativeDetail]
                /\ fibPc' = "done"
                /\ UNCHANGED <<fibA, fibB, fibI>>
           ELSE IF n <= 1
           THEN /\ fibResp' = [status |-> 200, hasResult |-> TRUE, result |-> n,
                               detail |-> ""]
                /\ fibPc' = "done"
                /\ UNCHANGED <<fibA, fibB, fibI>>
           ELSE /\ fibA' = 0
                /\ fibB' = 1
                /\ fibI' = 2
                /\ fibPc' = "loop"
                /\ UNCHANGED fibResp
    /\ UNCHANGED divResp
    /\ UNCHANGED <<itemVars, schemaVars, queryVars>>

\* One iteration of for _ in range(2, n + 1).
FibLoop ==
    /\ fibPc = "loop"
    /\ fibI < fibN + 1
    /\ fibA' = FibStep(fibA, fibB)[1]
    /\ fibB' = FibStep(fibA, fibB)[2]
    /\ fibI' = fibI + 1
    /\ UNCHANGED <<fibPc, fibN, fibResp, divResp>>
    /\ UNCHANGED <<itemVars, schemaVars, queryVars>>

\* The range is exhausted: return {'result': b}.
FibReturn ==
    /\ fibPc = "loop"
    /\ ~(fibI < fibN + 1)
    /\ fibResp' = [status |-> 200, hasResult |-> TRUE, result |-> fibB, detail |-> ""]
    /\ fibPc' = "done"
    /\ UNCHANGED <<fibN, fibA, fibB, fibI, divResp>>
    /\ UNCHANGED <<itemVars, schemaVars, queryVars>>

\* The response has been sent; the endpoint takes the next request.
FibNext ==
    /\ fibPc = "done"
    /\ fibPc' = "idle"
    /\ UNCHANGED <<fibN, fibA, fibB, fibI, fibResp, divResp>>
    /\ UNCHANGED <<itemVars, schemaVars, queryVars>>

(* ------------------------------ items --------------------------------- *)

\* ItemCreate.name and ItemCreate.description values that are enumerated.
Names == {"pen", "ink"}
Descriptions == {"blue", "red"}

\* skip: int = 0, limit: int = 100
DefaultSkip == 0
DefaultLimit == 100

NoItem == [id |-> 0, name |-> "", description |-> ""]

NoItemResp == [op |-> "none", status |-> 0, item |-> NoItem, list |-> <<>>,
               detail |-> "", reqId |-> 0, reqSkip |-> 0, reqLimit |-> 0]

Min(a, b) == IF a < b THEN a ELSE b
Max(a, b) == IF a < b THEN b ELSE a

\* The rows of s from position lo + 1 on, at most n of them.
Slice(s, lo, n) ==
    LET k == Max(0, Min(n, Len(s) - lo))
    IN  [i \in 1..k |-> s[lo + i]]

RECURSIVE MaxId(_)
MaxId(rows) == IF rows = <<>> THEN 0 ELSE Max(rows[Len(rows)].id, MaxId(SubSeq(rows, 1, Len(rows) - 1)))

\* id = Column(Integer, primary_key=True): the database assigns an unused
\* integer key on insert, one more than the largest key in the table.
NextId(rows) == MaxId(rows) + 1

\* OFFSET skip LIMIT limit on rows. SQLite reads a negative OFFSET as 0 and a
\* negative LIMIT as no limit; a strict database rejects either.
OffsetLimit(rows, skip, limit, db) ==
    IF db = "strict" /\ (skip < 0 \/ limit < 0)
    THEN [ok |-> FALSE, rows |-> <<>>]
    ELSE LET off == Max(0, skip)
             lim == IF limit < 0 THEN Len(rows) ELSE limit
         IN  [ok |-> TRUE, rows |-> Slice(rows, off, lim)]

\* A query that drops the filter and takes the first row of the table.
FirstRowUnfiltered(rows, item_id) ==
    IF rows = <<>> THEN <<>> ELSE <<rows[1]>>

\* db.query(Item).filter(Item.id == item_id).first(): the first matching row,
\* as a sequence of length 0 (None) or 1.
FilterByIdFirst(rows, item_id) ==
    LET hits == {i \in 1..Len(rows) : rows[i].id = item_id}
    IN  IF hits = {} THEN <<>>
        ELSE <<rows[CHOOSE i \in hits : \A j \in hits : i <= j]>>

\* POST /items/: add, commit, refresh, return the row as ItemResponse.
create_item(name, description) ==
    LET db_item == [id |-> NextId(items), name |-> name, description |-> description]
    IN  /\ items' = Append(items, db_item)
        /\ created' = Append(created, [id |-> db_item.id, name |-> name,
                                       description |-> description])
        /\ itemResp' = [NoItemResp EXCEPT !.op = "create_item", !.status = 200,
                                          !.item = db_item]
        /\ UNCHANGED dialect

CreateItem ==
    /\ Len(items) < MaxItems
    /\ \E name \in Names, description \in Descriptions : create_item(name, description)
    /\ UNCHANGED <<mathVars, schemaVars, queryVars>>

\* GET /items/?skip=&limit=
read_items(skip, limit) ==
    LET q == OffsetLimit(items, skip, limit, dialect)
    IN  /\ itemResp' = IF q.ok
                       THEN [NoItemResp EXCEPT !.op = "read_items", !.status = 200,
                                !.list = q.rows, !.reqSkip = skip, !.reqLimit = limit]
                       ELSE [NoItemResp EXCEPT !.op = "read_items", !.status = 500,
                                !.detail = "DatabaseError",
                                !.reqSkip = skip, !.reqLimit = limit]
        /\ UNCHANGED <<dialect, items, created>>

ReadItems ==
    /\ \E skip \in (-MaxNegPage..MaxPage) \cup {DefaultSkip},
          limit \in (-MaxNegPage..MaxPage) \cup {DefaultLimit} : read_items(skip, limit)
    /\ UNCHANGED <<mathVars, schemaVars, queryVars>>

\* GET /items/{item_id}
read_item(item_id) ==
    LET item == FilterByIdFirst(items, item_id)
    IN  /\ itemResp' = IF item = <<>>
                       THEN [NoItemResp EXCEPT !.op = "read_item", !.status = 404,
                                !.detail = "Item not", !.reqId = item_id]
                       ELSE [NoItemResp EXCEPT !.op = "read_item", !.status = 200,
                                !.item = item[1], !.reqId = item_id]
        /\ UNCHANGED <<dialect, items, created>>

ReadItem ==
    /\ \E item_id \in -1..(MaxItems + 1) : read_item(item_id)
    /\ UNCHANGED <<mathVars, schemaVars, queryVars>>

InitItems ==
    /\ dialect \in {"sqlite", "strict"}
    /\ items = <<>>
    /\ created = <<>>
    /\ itemResp = NoItemResp

NextItems ==
    \/ CreateItem
    \/ ReadItems
    \/ ReadItem

(* ------------------------- response schemas --------------------------- *)

\* Field(ge=0, le=100)
ConfidenceGe == 0
ConfidenceLe == 100

\* Candidate field values: whether answer and reasoning are given, and the
\* confidence_percentage as an integer, as text that is no integer, or missing.
Candidates(confValues) ==
    [answer : BOOLEAN, reasoning : BOOLEAN, kind : {"int"}, val : confValues]
    \cup [answer : BOOLEAN, reasoning : BOOLEAN, kind : {"text", "missing"}, val : {0}]

NoCand == [answer |-> FALSE, reasoning |-> FALSE, kind |-> "missing", val |-> 0]

NoInstance == [ok |-> FALSE, error |-> "", confidence_percentage |-> 0,
               answer |-> FALSE, reasoning |-> FALSE]

ValidationError == [NoInstance EXCEPT !.error = "ValidationError"]

\* A schema that clamps an out-of-range confidence into [0, 100].
BotResponseClamping(c) ==
    IF c.answer /\ c.reasoning /\ c.kind = "int"
    THEN [ok |-> TRUE, error |-> "", answer |-> TRUE, reasoning |-> TRUE,
          confidence_percentage |-> Max(ConfidenceGe, Min(ConfidenceLe, c.val))]
    ELSE ValidationError

\* BotResponse(**c): answer and reasoning are required, reference is optional,
\* confidence_percentage is a required int with ge=0 and le=100.
BotResponse(c) ==
    IF c.answer /\ c.reasoning /\ c.kind = "int"
       /\ c.val >= ConfidenceGe /\ c.val <= ConfidenceLe
    THEN [ok |-> TRUE, error |-> "", answer |-> TRUE, reasoning |-> TRUE,
          confidence_percentage |-> c.val]
    ELSE ValidationError

\* A schema that lost its upper bound (ge=0 only).
MCPBotResponseNoLe(c) ==
    IF c.answer /\ c.reasoning /\ c.kind = "int" /\ c.val >= ConfidenceGe
    THEN [ok |-> TRUE, error |-> "", answer |-> TRUE, reasoning |-> TRUE,
          confidence_percentage |-> c.val]
    ELSE ValidationError

\* MCPBotResponse(**c): answer and reasoning are required, websites_accessed
\* defaults to [], confidence_percentage is a required int with ge=0, le=100.
MCPBotResponse(c) ==
    IF c.answer /\ c.reasoning /\ c.kind = "int"
       /\ c.val >= ConfidenceGe /\ c.val <= ConfidenceLe
    THEN [ok |-> TRUE, error |-> "", answer |-> TRUE, reasoning |-> TRUE,
          confidence_percentage |-> c.val]
    ELSE ValidationError

OutputType(shape, c) ==
    IF shape = "BotResponse" THEN BotResponse(c) ELSE MCPBotResponse(c)

\* One construction of a response instance from candidate values.
Construct ==
    /\ \E shape \in {"BotResponse", "MCPBotResponse"},
          c \in Candidates((ConfidenceGe - ConfMargin)..(ConfidenceLe + ConfMargin)) :
        /\ schShape' = shape
        /\ schCand' = c
        /\ schResult' = OutputType(shape, c)
    /\ UNCHANGED <<mathVars, itemVars, queryVars>>

InitSchema ==
    /\ schShape = "none"
    /\ schCand = NoCand
    /\ schResult = NoInstance

NextSchema == Construct

(* ---------------------------- agent run ------------------------------- *)

Queries == 1..NumQueries

NoResult == [ok |-> FALSE, error |-> "", value |-> NoInstance]

\* The output drafts a model call may give: complete with a confidence at or
\* just beyond either end of the range, or lacking the answer or the confidence.
Drafts ==
    {c \in Candidates({ConfidenceGe - 1, ConfidenceGe, ConfidenceLe, ConfidenceLe + 1}) :
        /\ c.reasoning
        /\ c.kind # "text"
        /\ (c.answer \/ c.val = ConfidenceLe)
        /\ (c.answer \/ c.kind = "int")}

othersUnchanged == UNCHANGED <<mathVars, itemVars, schemaVars>>

\* The app module has been imported and the server listens.  Importing
\* src.agent defines build_agent without calling it; importing src.mcp_agent
\* constructs browser_mcp and the shared agent without starting a subprocess.
Startup ==
    /\ ~appUp
    /\ appUp' = TRUE
    /\ UNCHANGED <<tavilyKey, kind, pc, rounds, toolOk, draft, result, mOpen, mStarts,
                   mStops>>
    /\ othersUnchanged

\* Reasoning: the model call gives a tool-call request, an output draft, or
\* fails (network, authentication, rate limit).
Reason(q) ==
    /\ pc[q] = "reasoning"
    /\ \/ /\ rounds[q] < MaxRounds
          /\ pc' = [pc EXCEPT ![q] = "toolcall"]
          /\ rounds' = [rounds EXCEPT ![q] = @ + 1]
          /\ UNCHANGED <<draft, result>>
       \/ /\ \E d \in Drafts : draft' = [draft EXCEPT ![q] = d]
          /\ pc' = [pc EXCEPT ![q] = "validating"]
          /\ UNCHANGED <<rounds, result>>
       \/ /\ result' = [result EXCEPT ![q] = [NoResult EXCEPT !.error = "model_error"]]
          /\ pc' = [pc EXCEPT ![q] = "leaving"]
          /\ UNCHANGED <<rounds, draft>>
    /\ UNCHANGED <<tavilyKey, appUp, kind, toolOk, mOpen, mStarts, mStops>>
    /\ othersUnchanged

\* ToolCall: the tool answers, or fails and the failure is handed back to the
\* model, or fails and ends the run.
ToolCall(q) ==
    /\ pc[q] = "toolcall"
    /\ \/ /\ toolOk' = [toolOk EXCEPT ![q] = TRUE]
          /\ pc' = [pc EXCEPT ![q] = "reasoning"]
          /\ UNCHANGED result
       \/ /\ pc' = [pc EXCEPT ![q] = "reasoning"]
          /\ UNCHANGED <<toolOk, result>>
       \/ /\ result' = [result EXCEPT ![q] = [NoResult EXCEPT !.error = "tool_error"]]
          /\ pc' = [pc EXCEPT ![q] = "leaving"]
          /\ UNCHANGED toolOk
    /\ UNCHANGED <<tavilyKey, appUp, kind, rounds, draft, mOpen, mStarts, mStops>>
    /\ othersUnchanged

\* output_type=BotResponse of build_agent's Agent, output_type=MCPBotResponse
\* of the browser agent.
AgentOutputType(k) == IF k = "agent" THEN "BotResponse" ELSE "MCPBotResponse"

\* Validating: the draft is built into the agent's output_type; agent.run
\* returns the instance or raises, and its draft is gone with it.
Validate(q) ==
    /\ pc[q] = "validating"
    /\ LET v == OutputType(AgentOutputType(kind[q]), draft[q])
       IN  result' = [result EXCEPT ![q] =
                        IF v.ok THEN [ok |-> TRUE, error |-> "", value |-> v]
                        ELSE [NoResult EXCEPT !.error = "validation_error"]]
    /\ draft' = [draft EXCEPT ![q] = NoCand]
    /\ pc' = [pc EXCEPT ![q] = "leaving"]
    /\ UNCHANGED <<tavilyKey, appUp, kind, rounds, toolOk, mOpen, mStarts, mStops>>
    /\ othersUnchanged

(* -------------------------- POST /agent/query ------------------------- *)

\* A build_agent that takes whatever os.getenv gave, without the assert.
build_agent_unchecked(api_key) == [ok |-> TRUE, error |-> ""]

\* build_agent: api_key = os.getenv('TAVILY_API_KEY'); assert api_key is not None.
build_agent(api_key) ==
    IF api_key THEN [ok |-> TRUE, error |-> ""]
    ELSE [ok |-> FALSE, error |-> "AssertionError"]

\* A request arrives: Depends(get_agent) builds the agent for this request,
\* then query_agent awaits answer_question, which awaits agent.run.
QueryAgent(q) ==
    /\ appUp
    /\ pc[q] = "idle"
    /\ kind' = [kind EXCEPT ![q] = "agent"]
    /\ LET a == build_agent(tavilyKey)
       IN  IF a.ok
           THEN /\ pc' = [pc EXCEPT ![q] = "reasoning"]
                /\ UNCHANGED result
           ELSE /\ pc' = [pc EXCEPT ![q] = "failed"]
                /\ result' = [result EXCEPT ![q] = [NoResult EXCEPT !.error = a.error]]
    /\ UNCHANGED <<tavilyKey, appUp, rounds, toolOk, draft, mOpen, mStarts, mStops>>
    /\ othersUnchanged

\* answer_question returns result.output, or the exception of agent.run
\* propagates through it and query_agent.
AnswerReturn(q) ==
    /\ kind[q] = "agent"
    /\ pc[q] = "leaving"
    /\ pc' = [pc EXCEPT ![q] = IF result[q].ok THEN "done" ELSE "failed"]
    /\ UNCHANGED <<tavilyKey, appUp, kind, rounds, toolOk, draft, result, mOpen, mStarts, mStops>>
    /\ othersUnchanged

(* --------------------------- POST /mcp/query -------------------------- *)

\* An entry that starts the subprocess only when no other query has it running.
StartsOnEnterIfNotRunning(open, q) == \A o \in Queries : ~open[o]

\* Entering agent.run_mcp_servers() starts the server of this block.
StartsOnEnter(open, q) == TRUE

\* An exit that shuts down only when the body returned normally.
AexitOnReturnOnly(res) == res.ok

\* async with: the exit runs when the body returns and when it raises.
AexitRuns(res) == TRUE

\* A request arrives: query_mcp_agent awaits answer_mcp_question, which
\* begins to enter the block; the start of the subprocess is in progress.
McpQuery(q) ==
    /\ appUp
    /\ pc[q] = "idle"
    /\ kind' = [kind EXCEPT ![q] = "mcp"]
    /\ pc' = [pc EXCEPT ![q] = "starting"]
    /\ UNCHANGED <<tavilyKey, appUp, rounds, toolOk, draft, result, mOpen, mStarts, mStops>>
    /\ othersUnchanged

\* The entry completes and agent.run begins, or the start fails and the
\* block is never entered.
McpEntered(q) ==
    /\ pc[q] = "starting"
    /\ \/ /\ pc' = [pc EXCEPT ![q] = "reasoning"]
          /\ mOpen' = [mOpen EXCEPT ![q] = TRUE]
          /\ mStarts' = [mStarts EXCEPT ![q] = IF StartsOnEnter(mOpen, q) THEN @ + 1 ELSE @]
          /\ UNCHANGED result
       \/ /\ pc' = [pc EXCEPT ![q] = "failed"]
          /\ result' = [result EXCEPT ![q] = [NoResult EXCEPT !.error = "start_error"]]
          /\ UNCHANGED <<mOpen, mStarts>>
    /\ UNCHANGED <<tavilyKey, appUp, kind, rounds, toolOk, draft, mStops>>
    /\ othersUnchanged

\* The block is left: the shutdown of the subprocess completes, then
\* answer_mcp_question returns result.output or the exception propagates.
McpExit(q) ==
    /\ kind[q] = "mcp"
    /\ pc[q] = "leaving"
    /\ IF AexitRuns(result[q])
       THEN /\ mOpen' = [mOpen EXCEPT ![q] = FALSE]
            /\ mStops' = [mStops EXCEPT ![q] = @ + 1]
       ELSE UNCHANGED <<mOpen, mStops>>
    /\ pc' = [pc EXCEPT ![q] = IF result[q].ok THEN "done" ELSE "failed"]
    /\ UNCHANGED <<tavilyKey, appUp, kind, rounds, toolOk, draft, result, mStarts>>
    /\ othersUnchanged

InitQuery ==
    /\ tavilyKey \in BOOLEAN
    /\ appUp = FALSE
    /\ kind = [q \in Queries |-> "none"]
    /\ pc = [q \in Queries |-> "idle"]
    /\ rounds = [q \in Queries |-> 0]
    /\ toolOk = [q \in Queries |-> FALSE]
    /\ draft = [q \in Queries |-> NoCand]
    /\ result = [q \in Queries |-> NoResult]
    /\ mOpen = [q \in Queries |-> FALSE]
    /\ mStarts = [q \in Queries |-> 0]
    /\ mStops = [q \in Queries |-> 0]

NextAgent ==
    \/ Startup
    \/ \E q \in Queries : QueryAgent(q)
    \/ \E q \in Queries : Reason(q)
    \/ \E q \in Queries : ToolCall(q)
    \/ \E q \in Queries : Validate(q)
    \/ \E q \in Queries : AnswerReturn(q)

NextMcp ==
    \/ Startup
    \/ \E q \in Queries : McpQuery(q)
    \/ \E q \in Queries : McpEntered(q)
    \/ \E q \in Queries : Reason(q)
    \/ \E q \in Queries : ToolCall(q)
    \/ \E q \in Queries : Validate(q)
    \/ \E q \in Queries : McpExit(q)

\* Both endpoints in use together: the odd request slots arrive at
\* /agent/query, the even ones at /mcp/query.
AgentSlots == {q \in Queries : q % 2 = 1}
McpSlots == {q \in Queries : q % 2 = 0}

NextQuery ==
    \/ Startup
    \/ \E q \in AgentSlots : QueryAgent(q)
    \/ \E q \in McpSlots : McpQuery(q)
    \/ \E q \in Queries : McpEntered(q)
    \/ \E q \in Queries : Reason(q)
    \/ \E q \in Queries : ToolCall(q)
    \/ \E q \in Queries : Validate(q)
    \/ \E q \in Queries : AnswerReturn(q)
    \/ \E q \in Queries : McpExit(q)

(* --------------------------- specification ---------------------------- *)

InitMath ==
    /\ divResp = NoResp
    /\ fibPc = "idle"
    /\ fibN = 0
    /\ fibA = 0
    /\ fibB = 0
    /\ fibI = 0
    /\ fibResp = [status |-> 0, hasResult |-> FALSE, result |-> 0, detail |-> ""]

Init ==
    /\ InitMath
    /\ InitItems
    /\ InitSchema
    /\ InitQuery

NextDivide == DivideRequest

NextFib ==
    \/ FibEnter
    \/ FibLoop
    \/ FibReturn
    \/ FibNext

\* The default environment: DATABASE_URL unset, TAVILY_API_KEY set.
InitDefaultEnv ==
    /\ Init
    /\ dialect = "sqlite"
    /\ tavilyKey = TRUE

\* Any database, TAVILY_API_KEY set.
InitAnyDatabase ==
    /\ Init
    /\ tavilyKey = TRUE

\* The default database, TAVILY_API_KEY set or unset.
InitAnyKey ==
    /\ Init
    /\ dialect = "sqlite"

SpecDivide == InitDefaultEnv /\ [][NextDivide]_vars

SpecFib == InitDefaultEnv /\ [][NextFib]_vars

SpecItems == InitAnyDatabase /\ [][NextItems]_vars

SpecSchema == InitDefaultEnv /\ [][NextSchema]_vars

SpecAgent == InitAnyKey /\ [][NextAgent]_vars

SpecMcp == InitDefaultEnv /\ [][NextMcp]_vars

SpecQuery == InitDefaultEnv /\ [][NextQuery]_vars

(* ------------------------------ claims -------------------------------- *)

\* The Fibonacci numbers by their defining recurrence.
RECURSIVE Fib(_)
Fib(n) == IF n = 0 THEN 0 ELSE IF n = 1 THEN 1 ELSE Fib(n - 1) + Fib(n - 2)

\* C7: whenever the fibonacci handler has answered, a request with n >= 0 got
\* status 200 with result F(n) (F(0)=0, F(1)=1, F(n)=F(n-1)+F(n-2)), and a
\* request with n < 0 got no result but status 400 with the exact detail
\* "Input must be a non-negative integer".
C7_Fibonacci ==
    fibPc = "done" =>
        IF fibN >= 0
        THEN /\ fibResp.status = 200
             /\ fibResp.hasResult
             /\ fibResp.result = Fib(fibN)
        ELSE /\ fibResp.status = 400
             /\ ~fibResp.hasResult
             /\ fibResp.detail = "Input must be a non-negative integer"

\* C7 witness: the loop has run for n = 10 and answered 55.
C7_Witness ==
    /\ fibPc = "done"
    /\ fibN = 10
    /\ fibResp.result = 55
    /\ fibI = 11

\* C10: every answered division with a nonzero denominator carries a result r
\* with r * denominator = numerator, and every answered division with a zero
\* denominator carries no result and is a server error (status 500).
C10_Divide ==
    divResp.status # 0 =>
        IF divResp.den # 0
        THEN /\ divResp.status = 200
             /\ divResp.hasResult
             /\ divResp.result[2] > 0
             /\ divResp.result[1] * divResp.den = divResp.num * divResp.result[2]
        ELSE /\ divResp.status = 500
             /\ ~divResp.hasResult

\* C10 witness: a division by zero has been answered.
C10_Witness ==
    /\ divResp.status = 500
    /\ divResp.den = 0
    /\ divResp.num = 1

\* The creations that were given identifier i.
CreatedAs(i) == {k \in 1..Len(created) : created[k].id = i}

\* C8: distinct creations were given distinct identifiers; a read of an
\* identifier given at a creation answered 200 with that identifier and the
\* submitted name and description; a read of an identifier never given
\* answered 404 without a record.
C8_CreateThenRead ==
    /\ \A j, k \in 1..Len(created) : created[j].id = created[k].id => j = k
    /\ itemResp.op = "read_item" =>
        IF CreatedAs(itemResp.reqId) # {}
        THEN \A k \in CreatedAs(itemResp.reqId) :
                /\ itemResp.status = 200
                /\ itemResp.item.id = itemResp.reqId
                /\ itemResp.item.name = created[k].name
                /\ itemResp.item.description = created[k].description
        ELSE /\ itemResp.status = 404
             /\ itemResp.item = NoItem

\* C8 witness: the second of two creations has been read back.
C8_Witness ==
    /\ Len(created) >= 2
    /\ itemResp.op = "read_item"
    /\ itemResp.status = 200
    /\ itemResp.reqId = created[2].id
    /\ created[1].name # created[2].name

\* C9 as claimed: every answered listing, for every integer skip and limit,
\* holds at most limit items and is exactly the stored items at positions
\* skip .. skip+limit-1 (counted from 0); for a limit below 0 there is no such
\* position and "at most limit items" is read as "no items".
C9_PaginationAllIntegers ==
    (itemResp.op = "read_items" /\ itemResp.status = 200) =>
        /\ Len(itemResp.list) <= Max(0, itemResp.reqLimit)
        /\ \A i \in 1..Len(itemResp.list) :
              /\ itemResp.reqSkip + i \in 1..Len(items)
              /\ itemResp.list[i] = items[itemResp.reqSkip + i]
        /\ \A p \in 1..Len(items) :
              (p > itemResp.reqSkip /\ p <= itemResp.reqSkip + itemResp.reqLimit)
                  => p - itemResp.reqSkip \in 1..Len(itemResp.list)

\* C6: for both shapes, every constructed instance has
\* 0 <= confidence_percentage <= 100 and carries the candidate's value
\* unchanged, and a candidate whose confidence is below 0 or above 100 gives a
\* ValidationError and no instance.
C6_ConfidenceBounded ==
    schShape # "none" =>
        /\ schResult.ok =>
              /\ schResult.confidence_percentage >= 0
              /\ schResult.confidence_percentage <= 100
              /\ schResult.confidence_percentage = schCand.val
        /\ (schCand.kind = "int" /\ (schCand.val < 0 \/ schCand.val > 100)) =>
              /\ ~schResult.ok
              /\ schResult.error = "ValidationError"

\* C6 witness: a browsing-style construction with confidence 101 was refused.
C6_Witness ==
    /\ schShape = "MCPBotResponse"
    /\ schCand.answer /\ schCand.reasoning
    /\ schCand.kind = "int" /\ schCand.val = 101
    /\ ~schResult.ok

Terminal(q) == pc[q] \in {"done", "failed"}

RECURSIVE Total(_, _)
Total(f, n) == IF n = 0 THEN 0 ELSE f[n] + Total(f, n - 1)

\* C1: a browser query that has ended, with a response or with a failure, is
\* outside the run_mcp_servers block and every start made for it has been
\* matched by a shutdown; this holds for a run that failed mid-way as well.
C1_StoppedAfterBlock ==
    \A q \in Queries :
        Terminal(q) => (~mOpen[q] /\ mStops[q] = mStarts[q])

\* C1 witness: a query failed inside the block, after a tool call, and its
\* subprocess has been shut down.
C1_Witness ==
    \E q \in Queries :
        /\ pc[q] = "failed"
        /\ result[q].error = "model_error"
        /\ rounds[q] >= 1
        /\ mStarts[q] = 1
        /\ mStops[q] = 1
        /\ ~mOpen[q]

Busy == {q \in Queries : pc[q] \in {"starting", "toolcall", "leaving"}}

\* C3 as claimed: at no time do two queries have a browser action, or the
\* start or stop of the subprocess, in progress on the shared server.
C3_BrowserActionsSerialized == Cardinality(Busy) <= 1

SchemaValid(v) ==
    /\ v.ok
    /\ v.answer
    /\ v.reasoning
    /\ v.confidence_percentage \in 0..100

====
